---- MODULE Spec2Model ----
(***************************************************************************)
(* Lexer and InfixParser of src/src/lib/infixParser.cpp.                   *)
(*                                                                         *)
(* The lexer runs one loop iteration of tokenize() per step.  The parser   *)
(* runs one step of the statement loop of parse() per step; expression()   *)
(* and the precedence levels below it are recursive operators that thread  *)
(* the cursor and the heap of AST nodes, so that every allocation and      *)
(* every delete of a node is recorded.                                     *)
(***************************************************************************)
EXTENDS Integers, Sequences, FiniteSets, TLC

VARIABLES
    input,                 \* Lexer::inputStream, the characters of the text
    pos,                   \* read position in inputStream (next char to get)
    line,                  \* Lexer::line
    col,                   \* Lexer::col
    tokens,                \* the token vector (tokenize's result, InfixParser::tokens)
    currentTokenIndex,     \* InfixParser::currentTokenIndex (1-based here)
    unmatchedParentheses,  \* InfixParser::unmatchedParentheses
    root,                  \* InfixParser::root
    heap,                  \* every Node ever allocated with new, in order
    statements,            \* parse(): the local vector of statement roots
    statementLine,         \* parse(): the local statementLine
    stmt,                  \* parse(): the local stmt of the running iteration
    stmtStart,             \* cursor value at which the running iteration began
    error,                 \* the exception in flight / delivered to the driver
    pc                     \* where the driver / tokenize() / parse() stands

vars == <<input, pos, line, col, tokens, currentTokenIndex, unmatchedParentheses,
          root, heap, statements, statementLine, stmt, stmtStart, error, pc>>

lexVars == <<input, pos, line, col>>

(***************************************************************************)
(* Bounds of the model.                                                    *)
(***************************************************************************)
MaxLen == 4
MaxLine == 2
MaxInput == 4

NULL == 0

(***************************************************************************)
(* Characters.                                                             *)
(***************************************************************************)
EOFCHAR == "EOF"
NL == "\n"
Digits == {"0", "1", "2", "3", "4", "5", "6", "7", "8", "9"}

DigitVal(c) ==
    CASE c = "0" -> 0 [] c = "1" -> 1 [] c = "2" -> 2 [] c = "3" -> 3
      [] c = "4" -> 4 [] c = "5" -> 5 [] c = "6" -> 6 [] c = "7" -> 7
      [] c = "8" -> 8 [] c = "9" -> 9

isspace(c) == c \in {" ", NL, "\t"}

\* Lexer::isDigit: a decimal digit or a dot
isDigit(c) == c \in Digits \/ c = "."

\* Lexer::isOperator
isOperator(c) == c \in {"+", "-", "*", "/"}

\* inputStream.peek()
peek(inp, p) == IF p > Len(inp) THEN EOFCHAR ELSE inp[p]

Token(type, value, ln, column) ==
    [type |-> type, value |-> value, line |-> ln, column |-> column]

(***************************************************************************)
(* Lexer::consume: the position after one get() and the line and column    *)
(* it leaves behind.                                                       *)
(***************************************************************************)
consume(inp, lx) ==
    LET current == inp[lx.pos]
    IN  [pos  |-> lx.pos + 1,
         line |-> IF current = NL THEN lx.line + 1 ELSE lx.line,
         col  |-> IF current = NL THEN 1 ELSE lx.col + 1]

(***************************************************************************)
(* Lexer::number.  numberLoop is the while loop: lx is the lexer's         *)
(* position, num the text gathered, hasDecimal the flag.  The result is    *)
(* the token and the lexer's position after it.                            *)
(***************************************************************************)
RECURSIVE numberLoop(_, _, _, _, _)
numberLoop(inp, lx, startCol, num, hasDecimal) ==
    IF isDigit(peek(inp, lx.pos))
    THEN LET c  == inp[lx.pos]
             l2 == consume(inp, lx)
         IN  IF c = "." /\ hasDecimal
             THEN [tok |-> Token("UNKNOWN", Append(num, c), l2.line, startCol), lx |-> l2]
             ELSE numberLoop(inp, l2, startCol, Append(num, c),
                             hasDecimal \/ c = ".")
    ELSE IF num[1] = "." \/ num[Len(num)] = "."
         THEN [tok |-> Token("UNKNOWN", num, lx.line, startCol), lx |-> lx]
         ELSE [tok |-> Token("NUMBER", num, lx.line, startCol), lx |-> lx]

number(inp, lx) == numberLoop(inp, lx, lx.col, <<>>, FALSE)

(***************************************************************************)
(* Lexer::op                                                               *)
(***************************************************************************)
op(inp, lx) ==
    LET startCol == lx.col
        c  == inp[lx.pos]
        l2 == consume(inp, lx)
        type == CASE c = "+" -> "ADD"
                  [] c = "-" -> "SUBTRACT"
                  [] c = "*" -> "MULTIPLY"
                  [] c = "/" -> "DIVIDE"
                  [] OTHER   -> "UNKNOWN"
    IN  [tok |-> Token(type, <<c>>, l2.line, startCol), lx |-> l2]

(***************************************************************************)
(* AST nodes.  A Node* is an index into heap (NULL is nullptr); a node     *)
(* keeps its record after delete, with alive = FALSE and the number of     *)
(* times it was deleted in frees.                                          *)
(***************************************************************************)
Zero == [mant |-> 0, scale |-> 0]
One  == [mant |-> 1, scale |-> 0]

\* new Node(type, value, name) followed by the push_backs of its children
New(h, type, value, name, children) ==
    [heap |-> Append(h, [type |-> type, value |-> value, name |-> name,
                         children |-> children, alive |-> TRUE, frees |-> 0]),
     ptr  |-> Len(h) + 1]

(***************************************************************************)
(* std::stod on the text of a NUMBER token: the decimal value              *)
(* mant / 10^scale, without trailing zeros after the point.                *)
(***************************************************************************)
RECURSIVE stodDigits(_, _, _, _, _)
stodDigits(s, i, mant, scale, seenDot) ==
    IF i > Len(s) THEN [mant |-> mant, scale |-> scale]
    ELSE IF s[i] = "." THEN stodDigits(s, i + 1, mant, scale, TRUE)
    ELSE stodDigits(s, i + 1, mant * 10 + DigitVal(s[i]),
                    IF seenDot THEN scale + 1 ELSE scale, seenDot)

RECURSIVE stodNormal(_)
stodNormal(v) ==
    IF v.scale > 0 /\ v.mant % 10 = 0
    THEN stodNormal([mant |-> v.mant \div 10, scale |-> v.scale - 1])
    ELSE v

stod(s) == stodNormal(stodDigits(s, 1, 0, 0, FALSE))

(***************************************************************************)
(* InfixParser::clearTree(Node*& node): deletes the subtree and nulls the  *)
(* pointer it was given; the result is the heap and that pointer.  On a    *)
(* pointer to a node already deleted the node is deleted a second time     *)
(* (frees = 2).                                                            *)
(***************************************************************************)
RECURSIVE clearTree(_, _)
RECURSIVE clearChildren(_, _, _)

clearChildren(h, n, i) ==
    IF i > Len(h[n].children) THEN h
    ELSE LET c == clearTree(h, h[n].children[i])
         IN  clearChildren([c.heap EXCEPT ![n].children[i] = c.ptr], n, i + 1)

clearTree(h, n) ==
    IF n = NULL THEN [heap |-> h, ptr |-> NULL]
    ELSE LET h1 == clearChildren(h, n, 1)
         IN  [heap |-> [h1 EXCEPT ![n].alive = FALSE, ![n].frees = @ + 1],
              ptr  |-> NULL]

(***************************************************************************)
(* The exception: std::runtime_error("Unexpected token at line L column C: *)
(* text").  site names the throw statement that raised it.                 *)
(***************************************************************************)
NoError == [thrown |-> FALSE, line |-> 0, column |-> 0, text |-> <<>>, site |-> "none"]

Unexpected(tok, site) ==
    [thrown |-> TRUE, line |-> tok.line, column |-> tok.column,
     text |-> tok.value, site |-> site]

\* a parsing function leaves by exception: no node is returned
Raise(s, tok, site) == [s EXCEPT !.node = NULL, !.err = Unexpected(tok, site)]

(***************************************************************************)
(* The precedence levels.  A parser state s is                             *)
(*   [idx, heap, unmatched, node, err]:                                    *)
(* the cursor, the heap, unmatchedParentheses, the Node* a call returned   *)
(* and the exception it left by (err.thrown).                              *)
(***************************************************************************)
RECURSIVE expression(_, _)
RECURSIVE assignmentExpression(_, _)
RECURSIVE logicalOrExpression(_, _)
RECURSIVE logicalOrLoop(_, _)
RECURSIVE logicalXorExpression(_, _)
RECURSIVE logicalXorLoop(_, _)
RECURSIVE logicalAndExpression(_, _)
RECURSIVE logicalAndLoop(_, _)
RECURSIVE equalityExpression(_, _)
RECURSIVE equalityLoop(_, _)
RECURSIVE relationalExpression(_, _)
RECURSIVE relationalLoop(_, _)
RECURSIVE additiveExpression(_, _)
RECURSIVE additiveLoop(_, _)
RECURSIVE multiplicativeExpression(_, _)
RECURSIVE multiplicativeLoop(_, _)
RECURSIVE factor(_, _)

\* (variant) a catch block that clears right and forgets node
Rethrow_LeakLeft(r, node) ==
    [r EXCEPT !.heap = clearTree(r.heap, NULL).heap, !.node = NULL]

\* the catch block of a level: clearTree(right); clearTree(node); throw
\* (right, or valueNode, is still nullptr whenever the operand call throws)
Rethrow(r, node) ==
    LET c1 == clearTree(r.heap, NULL)
        c2 == clearTree(c1.heap, node)
    IN  [r EXCEPT !.heap = c2.heap, !.node = NULL]

\* (variant) the right operand pushed before the left one
Wrap_Swapped(r, type, node) ==
    LET a == New(r.heap, type, Zero, <<>>, <<r.node, node>>)
    IN  [r EXCEPT !.heap = a.heap, !.node = a.ptr]

\* newNode = new Node(type); push_back(node); push_back(right); node = newNode
Wrap(r, type, node) ==
    LET a == New(r.heap, type, Zero, <<>>, <<node, r.node>>)
    IN  [r EXCEPT !.heap = a.heap, !.node = a.ptr]

\* a call left by exception: the caller is left the same way
Thrown(n) == n.err.thrown

\* expression: r is what assignmentExpression left; the catch block clears
\* node, which is still nullptr
expressionCatch(r) ==
    IF r.err.thrown
    THEN [r EXCEPT !.heap = clearTree(r.heap, NULL).heap]
    ELSE r

expression(toks, s) == expressionCatch(assignmentExpression(toks, s))

\* assignmentExpression once the right-hand side v is back
assignmentValue(node, v) ==
    IF v.err.thrown THEN Rethrow(v, node) ELSE Wrap(v, "ASSIGN", node)

\* (variant) clearTree taking its pointer by value: node is not nulled and
\* the catch block clears it again
assignmentReject_NoNull(n, optok) ==
    LET c  == clearTree(n.heap, n.node)
        c1 == clearTree(c.heap, NULL)
        c2 == clearTree(c1.heap, n.node)
    IN  Raise([n EXCEPT !.heap = c2.heap], optok, "assign")

\* the non-identifier left operand: clearTree(node), throw, and the catch block
assignmentReject(n, optok) ==
    LET c  == clearTree(n.heap, n.node)
        c1 == clearTree(c.heap, NULL)
        c2 == clearTree(c1.heap, c.ptr)
    IN  Raise([n EXCEPT !.heap = c2.heap], optok, "assign")

\* (variant) the right-hand side parsed one level down, as the other
\* levels do, instead of by assignmentExpression itself
assignmentTry_NoChain(toks, n) ==
    IF Thrown(n) THEN n
    ELSE IF toks[n.idx].type = "ASSIGN"
         THEN IF n.heap[n.node].type # "IDENTIFIER"
              THEN assignmentReject(n, toks[n.idx])
              ELSE assignmentValue(n.node,
                       logicalOrExpression(toks, [n EXCEPT !.idx = @ + 1]))
         ELSE n

\* assignmentExpression once the left operand n is back
assignmentTry(toks, n) ==
    IF Thrown(n) THEN n
    ELSE IF toks[n.idx].type = "ASSIGN"
         THEN IF n.heap[n.node].type # "IDENTIFIER"
              THEN assignmentReject(n, toks[n.idx])
              ELSE assignmentValue(n.node,
                       assignmentExpression(toks, [n EXCEPT !.idx = @ + 1]))
         ELSE n

\* logicalOrExpression (the level below assignment)
logicalOrExpression(toks, s) ==
    logicalOrLoop(toks, logicalXorExpression(toks, s))

assignmentExpression(toks, s) == assignmentTry(toks, logicalOrExpression(toks, s))

\* one turn of a level's while loop once the right operand r is back; the
\* result is the state at the next test of the loop, or the exception
logicalOrStep(s, r) ==
    IF r.err.thrown THEN Rethrow(r, s.node) ELSE Wrap(r, "LOGICAL_OR", s.node)

logicalOrLoop(toks, s) ==
    IF Thrown(s) THEN s
    ELSE IF toks[s.idx].type = "LOGICAL_OR"
    THEN logicalOrLoop(toks,
             logicalOrStep(s, logicalXorExpression(toks, [s EXCEPT !.idx = @ + 1])))
    ELSE s

logicalXorStep(s, r) ==
    IF r.err.thrown THEN Rethrow(r, s.node) ELSE Wrap(r, "LOGICAL_XOR", s.node)

logicalXorLoop(toks, s) ==
    IF Thrown(s) THEN s
    ELSE IF toks[s.idx].type = "LOGICAL_XOR"
    THEN logicalXorLoop(toks,
             logicalXorStep(s, logicalAndExpression(toks, [s EXCEPT !.idx = @ + 1])))
    ELSE s

logicalXorExpression(toks, s) ==
    logicalXorLoop(toks, logicalAndExpression(toks, s))

logicalAndStep(s, r) ==
    IF r.err.thrown THEN Rethrow(r, s.node) ELSE Wrap(r, "LOGICAL_AND", s.node)

logicalAndLoop(toks, s) ==
    IF Thrown(s) THEN s
    ELSE IF toks[s.idx].type = "LOGICAL_AND"
    THEN logicalAndLoop(toks,
             logicalAndStep(s, equalityExpression(toks, [s EXCEPT !.idx = @ + 1])))
    ELSE s

logicalAndExpression(toks, s) ==
    logicalAndLoop(toks, equalityExpression(toks, s))

equalityStep(s, optok, r) ==
    IF r.err.thrown THEN Rethrow(r, s.node)
    ELSE Wrap(r, IF optok.type = "EQUAL" THEN "EQUAL" ELSE "NOT_EQUAL", s.node)

equalityLoop(toks, s) ==
    IF Thrown(s) THEN s
    ELSE IF toks[s.idx].type \in {"EQUAL", "NOT_EQUAL"}
    THEN equalityLoop(toks,
             equalityStep(s, toks[s.idx],
                 relationalExpression(toks, [s EXCEPT !.idx = @ + 1])))
    ELSE s

equalityExpression(toks, s) ==
    equalityLoop(toks, relationalExpression(toks, s))

relationalStep(s, optok, r) ==
    IF r.err.thrown THEN Rethrow(r, s.node)
    ELSE Wrap(r, IF optok.type = "LESS" THEN "LESS_THAN"
                 ELSE IF optok.type = "LESS_EQUAL" THEN "LESS_EQUAL"
                 ELSE IF optok.type = "GREATER" THEN "GREATER_THAN"
                 ELSE "GREATER_EQUAL",
              s.node)

relationalLoop(toks, s) ==
    IF Thrown(s) THEN s
    ELSE IF toks[s.idx].type \in {"LESS", "LESS_EQUAL", "GREATER", "GREATER_EQUAL"}
    THEN relationalLoop(toks,
             relationalStep(s, toks[s.idx],
                 additiveExpression(toks, [s EXCEPT !.idx = @ + 1])))
    ELSE s

\* (variant) the first operand taken from the multiplicative level
relationalExpression_SkipsAdditive(toks, s) ==
    relationalLoop(toks, multiplicativeExpression(toks, s))

relationalExpression(toks, s) ==
    relationalLoop(toks, additiveExpression(toks, s))

additiveStep(s, optok, r) ==
    IF r.err.thrown THEN Rethrow(r, s.node)
    ELSE Wrap(r, IF optok.type = "ADD" THEN "ADD" ELSE "SUBTRACT", s.node)

additiveLoop(toks, s) ==
    IF Thrown(s) THEN s
    ELSE IF toks[s.idx].type \in {"ADD", "SUBTRACT"}
    THEN additiveLoop(toks,
             additiveStep(s, toks[s.idx],
                 multiplicativeExpression(toks, [s EXCEPT !.idx = @ + 1])))
    ELSE s

additiveExpression(toks, s) ==
    additiveLoop(toks, multiplicativeExpression(toks, s))

multiplicativeStep(s, optok, r) ==
    IF r.err.thrown THEN Rethrow(r, s.node)
    ELSE Wrap(r, IF optok.type = "MULTIPLY" THEN "MULTIPLY"
                 ELSE IF optok.type = "DIVIDE" THEN "DIVIDE"
                 ELSE "MODULO",
              s.node)

multiplicativeLoop(toks, s) ==
    IF Thrown(s) THEN s
    ELSE IF toks[s.idx].type \in {"MULTIPLY", "DIVIDE", "MODULO"}
    THEN multiplicativeLoop(toks,
             multiplicativeStep(s, toks[s.idx], factor(toks, [s EXCEPT !.idx = @ + 1])))
    ELSE s

multiplicativeExpression(toks, s) ==
    multiplicativeLoop(toks, factor(toks, s))

\* a leaf: node = new Node(type, value, name); currentTokenIndex++
Leaf(s, type, value, name) ==
    LET a == New(s.heap, type, value, name, <<>>)
    IN  [s EXCEPT !.heap = a.heap, !.node = a.ptr, !.idx = @ + 1]

\* (variant) the error names the token before the one where ')' was required
factorParen_NamesPrevious(toks, r) ==
    IF r.err.thrown
    THEN [r EXCEPT !.heap = clearTree(r.heap, NULL).heap]
    ELSE IF toks[r.idx].type # "RIGHT_PAREN"
    THEN LET c  == clearTree(r.heap, r.node)
             c2 == clearTree(c.heap, c.ptr)
         IN  Raise([r EXCEPT !.heap = c2.heap], toks[r.idx - 1], "paren")
    ELSE [r EXCEPT !.unmatched = @ - 1, !.idx = @ + 1]

\* the '(' branch of factor once expression() is back with r
factorParen(toks, r) ==
    IF r.err.thrown
    THEN [r EXCEPT !.heap = clearTree(r.heap, NULL).heap]
    ELSE IF toks[r.idx].type # "RIGHT_PAREN"
    THEN LET c  == clearTree(r.heap, r.node)
             c2 == clearTree(c.heap, c.ptr)
         IN  Raise([r EXCEPT !.heap = c2.heap], toks[r.idx], "paren")
    ELSE [r EXCEPT !.unmatched = @ - 1, !.idx = @ + 1]

factor(toks, s) ==
    LET token == toks[s.idx]
    IN  CASE token.type = "NUMBER" -> Leaf(s, "NUMBER", stod(token.value), <<>>)
          [] token.type = "IDENTIFIER" -> Leaf(s, "IDENTIFIER", Zero, token.value)
          [] token.type = "LEFT_PAREN" ->
                factorParen(toks,
                    expression(toks, [s EXCEPT !.unmatched = @ + 1, !.idx = @ + 1]))
          [] token.type = "BOOLEAN_TRUE" -> Leaf(s, "BOOLEAN_LITERAL", One, <<>>)
          [] token.type = "BOOLEAN_FALSE" -> Leaf(s, "BOOLEAN_LITERAL", Zero, <<>>)
          [] OTHER -> Raise(s, token, "factor")

(***************************************************************************)
(* Inputs.  The driver either hands a text to the Lexer (LexInputs) or a   *)
(* token vector to the parser directly: every sequence of up to MaxLen     *)
(* tokens over InputKinds spread over up to MaxLine lines (GeneralInputs), *)
(* every x op1 y op2 z over all binary operators (OpsInputs) and the       *)
(* assignment chains a = b = c = e (ChainInputs).  A token vector ends     *)
(* with the sentinel UNKNOWN "END", as tokenize() leaves it.               *)
(***************************************************************************)
EndText == <<"E", "N", "D">>

LexChars == {"1", ".", " ", NL, "+", "*", "(", ")", "x"}

InputKinds == {"NUMBER", "IDENTIFIER", "ASSIGN", "ADD", "MULTIPLY",
               "LEFT_PAREN", "RIGHT_PAREN", "UNKNOWN"}

TextOf(kind) ==
    CASE kind = "NUMBER" -> <<"1">>
      [] kind = "IDENTIFIER" -> <<"a">>
      [] kind = "ASSIGN" -> <<"=">>
      [] kind = "ADD" -> <<"+">>
      [] kind = "MULTIPLY" -> <<"*">>
      [] kind = "LEFT_PAREN" -> <<"(">>
      [] kind = "RIGHT_PAREN" -> <<")">>
      [] kind = "UNKNOWN" -> <<"?">>

\* the lines of n tokens: the first on line 1, each next one on the same
\* line or on the next
LinePatterns(n) ==
    {f \in [1..n -> 1..MaxLine] :
        /\ n > 0 => f[1] = 1
        /\ \A i \in 1..(n - 1) : f[i + 1] \in {f[i], f[i] + 1}}

\* token i stands in column i; the sentinel follows the last token
WithSentinel(toks) ==
    Append(toks, Token("UNKNOWN", EndText,
                       IF Len(toks) = 0 THEN 1 ELSE toks[Len(toks)].line,
                       Len(toks) + 1))

GeneralInput(k, l) ==
    WithSentinel([i \in 1..Len(k) |-> Token(k[i], TextOf(k[i]), l[i], i)])

BinaryOps ==
    {<<"ASSIGN", <<"=">>>>, <<"LOGICAL_OR", <<"|", "|">>>>,
     <<"LOGICAL_XOR", <<"^", "^">>>>, <<"LOGICAL_AND", <<"&", "&">>>>,
     <<"EQUAL", <<"=", "=">>>>, <<"NOT_EQUAL", <<"!", "=">>>>,
     <<"LESS", <<"<">>>>, <<"LESS_EQUAL", <<"<", "=">>>>,
     <<"GREATER", <<">">>>>, <<"GREATER_EQUAL", <<">", "=">>>>,
     <<"ADD", <<"+">>>>, <<"SUBTRACT", <<"-">>>>,
     <<"MULTIPLY", <<"*">>>>, <<"DIVIDE", <<"/">>>>, <<"MODULO", <<"%">>>>}

Num(text) == <<"NUMBER", text>>
Id(text) == <<"IDENTIFIER", text>>
LP == <<"LEFT_PAREN", <<"(">>>>
RP == <<"RIGHT_PAREN", <<")">>>>

\* a sequence of <<kind, text>> pairs as tokens of one line
OneLine(pairs) ==
    WithSentinel([i \in 1..Len(pairs) |-> Token(pairs[i][1], pairs[i][2], 1, i)])

OperandsX == {<<Num(<<"8">>)>>, <<Id(<<"a">>)>>}
OperandsY == {<<Num(<<"3">>)>>, <<Id(<<"b">>)>>, <<LP, Num(<<"3">>), RP>>}
OperandsZ == {<<Num(<<"2">>)>>, <<Id(<<"c">>)>>,
              <<<<"BOOLEAN_TRUE", <<"t", "r", "u", "e">>>>>>,
              <<<<"BOOLEAN_FALSE", <<"f", "a", "l", "s", "e">>>>>>}

OpsInput(x, o1, y, o2, z) == OneLine(x \o <<o1>> \o y \o <<o2>> \o z)

AssignOp == <<"ASSIGN", <<"=">>>>

ChainTails == {<<Num(<<"5">>)>>,
               <<Num(<<"8">>), <<"ADD", <<"+">>>>, Num(<<"1", ".", "5">>)>>,
               <<LP, Id(<<"d">>), RP>>}

ChainInput(e) ==
    OneLine(<<Id(<<"a">>), AssignOp, Id(<<"b">>), AssignOp, Id(<<"c">>), AssignOp>> \o e)

(***************************************************************************)
(* Initial states: Lexer(input) constructed on a text (line 1, col 1), or  *)
(* a token vector ready for InfixParser(tokens).                           *)
(***************************************************************************)
InitParser ==
    /\ currentTokenIndex = 1
    /\ unmatchedParentheses = 0
    /\ root = NULL
    /\ heap = <<>>
    /\ statements = <<>>
    /\ statementLine = 0
    /\ stmt = NULL
    /\ stmtStart = 0
    /\ error = NoError

InitLex ==
    /\ \E n \in 0..MaxInput : input \in [1..n -> LexChars]
    /\ pos = 1 /\ line = 1 /\ col = 1
    /\ tokens = <<>>
    /\ pc = "lex"
    /\ InitParser

InitDirect ==
    /\ input = <<>>
    /\ pos = 1 /\ line = 1 /\ col = 1
    /\ \/ \E n \in 0..MaxLen : \E k \in [1..n -> InputKinds], l \in LinePatterns(n) :
              tokens = GeneralInput(k, l)
       \/ \E x \in OperandsX, o1 \in BinaryOps, y \in OperandsY,
             o2 \in BinaryOps, z \in OperandsZ :
              tokens = OpsInput(x, o1, y, o2, z)
       \/ \E e \in ChainTails : tokens = ChainInput(e)
    /\ pc = "ready"
    /\ InitParser

Init == InitLex \/ InitDirect

parserVars == <<currentTokenIndex, unmatchedParentheses, root, heap, statements,
                statementLine, stmt, stmtStart, error>>

(***************************************************************************)
(* Lexer::tokenize, one loop iteration per action.                         *)
(***************************************************************************)
Lx == [pos |-> pos, line |-> line, col |-> col]

SetLx(l2) == pos' = l2.pos /\ line' = l2.line /\ col' = l2.col

\* tokens.push_back(number()) and tokens.push_back(op())
PushToken(r) == tokens' = Append(tokens, r.tok) /\ SetLx(r.lx)

TokenizeSpace ==
    /\ pc = "lex"
    /\ peek(input, pos) # EOFCHAR
    /\ isspace(peek(input, pos))
    /\ SetLx(consume(input, Lx))
    /\ UNCHANGED <<input, tokens, pc, parserVars>>

TokenizeLeftParen ==
    /\ pc = "lex"
    /\ peek(input, pos) = "("
    /\ tokens' = Append(tokens, Token("LEFT_PAREN", <<"(">>, line, col))
    /\ SetLx(consume(input, Lx))
    /\ UNCHANGED <<input, pc, parserVars>>

TokenizeRightParen ==
    /\ pc = "lex"
    /\ peek(input, pos) = ")"
    /\ tokens' = Append(tokens, Token("RIGHT_PAREN", <<")">>, line, col))
    /\ SetLx(consume(input, Lx))
    /\ UNCHANGED <<input, pc, parserVars>>

TokenizeNumber ==
    /\ pc = "lex"
    /\ peek(input, pos) # EOFCHAR
    /\ isDigit(peek(input, pos))
    /\ PushToken(number(input, Lx))
    /\ UNCHANGED <<input, pc, parserVars>>

TokenizeOperator ==
    /\ pc = "lex"
    /\ peek(input, pos) # EOFCHAR
    /\ isOperator(peek(input, pos))
    /\ PushToken(op(input, Lx))
    /\ UNCHANGED <<input, pc, parserVars>>

\* any other character: {UNKNOWN, string(1, consume()), line, col}, whose
\* members are evaluated in order, consume() first; then return tokens
TokenizeUnknown ==
    /\ pc = "lex"
    /\ LET c == peek(input, pos)
       IN  /\ c # EOFCHAR
           /\ ~isspace(c) /\ c # "(" /\ c # ")" /\ ~isDigit(c) /\ ~isOperator(c)
           /\ LET l2 == consume(input, Lx)
              IN  /\ tokens' = Append(tokens, Token("UNKNOWN", <<c>>, l2.line, l2.col))
                  /\ SetLx(l2)
    /\ pc' = "ready"
    /\ UNCHANGED <<input, parserVars>>

\* end of input: the sentinel
TokenizeEnd ==
    /\ pc = "lex"
    /\ peek(input, pos) = EOFCHAR
    /\ tokens' = Append(tokens, Token("UNKNOWN", EndText, line, col))
    /\ pc' = "ready"
    /\ UNCHANGED <<lexVars, parserVars>>

(***************************************************************************)
(* InfixParser::parse.                                                     *)
(***************************************************************************)
currentToken == tokens[currentTokenIndex]

\* InfixParser(tokens) and the first two lines of parse()
ParseBegin ==
    /\ pc = "ready"
    /\ currentTokenIndex' = 1
    /\ root' = NULL
    /\ unmatchedParentheses' = 0
    /\ statements' = <<>>
    /\ statementLine' = tokens[1].line
    /\ pc' = "loop"
    /\ UNCHANGED <<lexVars, tokens, heap, stmt, stmtStart, error>>

\* expression() is back with r: stmt is set, or the exception reaches the
\* catch block of parse()
ExpressionDone(r) ==
    /\ currentTokenIndex' = r.idx
    /\ heap' = r.heap
    /\ unmatchedParentheses' = r.unmatched
    /\ stmt' = r.node
    /\ error' = r.err
    /\ pc' = IF r.err.thrown THEN "catch" ELSE "check"

\* while (currentToken().type != UNKNOWN) { Node* stmt = expression(os);
ParseExpression ==
    /\ pc = "loop"
    /\ currentToken.type # "UNKNOWN"
    /\ ExpressionDone(expression(tokens, [idx |-> currentTokenIndex, heap |-> heap,
                                          unmatched |-> unmatchedParentheses,
                                          node |-> NULL, err |-> NoError]))
    /\ stmtStart' = currentTokenIndex
    /\ UNCHANGED <<lexVars, tokens, root, statements, statementLine>>

\* (variant) statementLine is not moved to the next statement's line
ParseAccept_StaleLine ==
    /\ pc = "check"
    /\ currentToken.type = "UNKNOWN" \/ currentToken.line > statementLine
    /\ statements' = Append(statements, stmt)
    /\ stmt' = NULL
    /\ pc' = "loop"
    /\ UNCHANGED <<lexVars, tokens, currentTokenIndex, unmatchedParentheses, root,
                   heap, stmtStart, error, statementLine>>

\* the statement ends at the end of input or at a token on a later line
ParseAccept ==
    /\ pc = "check"
    /\ currentToken.type = "UNKNOWN" \/ currentToken.line > statementLine
    /\ statements' = Append(statements, stmt)
    /\ statementLine' = IF currentToken.type # "UNKNOWN"
                        THEN currentToken.line ELSE statementLine
    /\ stmt' = NULL
    /\ pc' = "loop"
    /\ UNCHANGED <<lexVars, tokens, currentTokenIndex, unmatchedParentheses, root,
                   heap, stmtStart, error>>

\* for (auto& stmt : statements) { clearTree(stmt); clearTree(root); } from
\* element i on
RECURSIVE clearStatements(_, _, _, _)
clearStatements(h, stmts, rt, i) ==
    IF i > Len(stmts) THEN [heap |-> h, statements |-> stmts, root |-> rt]
    ELSE LET c1 == clearTree(h, stmts[i])
             c2 == clearTree(c1.heap, rt)
         IN  clearStatements(c2.heap, [stmts EXCEPT ![i] = c1.ptr], c2.ptr, i + 1)

\* a token on the statement's line follows it: the roots parsed so far are
\* cleared and the error is thrown (the local stmt is left as it is)
ParseReject ==
    /\ pc = "check"
    /\ ~(currentToken.type = "UNKNOWN" \/ currentToken.line > statementLine)
    /\ LET c == clearStatements(heap, statements, root, 1)
       IN  /\ heap' = c.heap
           /\ statements' = c.statements
           /\ root' = c.root
    /\ error' = Unexpected(currentToken, "boundary")
    /\ pc' = "catch"
    /\ UNCHANGED <<lexVars, tokens, currentTokenIndex, unmatchedParentheses,
                   statementLine, stmt, stmtStart>>

\* catch (...) { for (auto& stmt : statements) clearTree(stmt); clearTree(root); throw; }
ParseCatch ==
    /\ pc = "catch"
    /\ LET c  == clearStatements(heap, statements, NULL, 1)
           c2 == clearTree(c.heap, root)
       IN  /\ heap' = c2.heap
           /\ statements' = c.statements
           /\ root' = c2.ptr
    /\ pc' = "thrown"
    /\ UNCHANGED <<lexVars, tokens, currentTokenIndex, unmatchedParentheses,
                   statementLine, stmt, stmtStart, error>>

\* (variant) an if in place of the while: parse() returns after one statement
ParseReturn_AfterOne ==
    /\ pc = "loop"
    /\ currentToken.type = "UNKNOWN" \/ Len(statements) > 0
    /\ pc' = "returned"
    /\ UNCHANGED <<lexVars, tokens, parserVars>>

\* the loop ends on a token of type UNKNOWN: return statements
ParseReturn ==
    /\ pc = "loop"
    /\ currentToken.type = "UNKNOWN"
    /\ pc' = "returned"
    /\ UNCHANGED <<lexVars, tokens, parserVars>>

Next ==
    \/ TokenizeSpace
    \/ TokenizeLeftParen
    \/ TokenizeRightParen
    \/ TokenizeNumber
    \/ TokenizeOperator
    \/ TokenizeUnknown
    \/ TokenizeEnd
    \/ ParseBegin
    \/ ParseExpression
    \/ ParseAccept
    \/ ParseReject
    \/ ParseCatch
    \/ ParseReturn

Spec == Init /\ [][Next]_vars

(***************************************************************************)
(* Vocabulary of the properties.                                           *)
(***************************************************************************)
Nodes == 1..Len(heap)

\* the nodes of the subtree under pointer n
RECURSIVE Reach(_, _)
Reach(h, n) ==
    IF n = NULL THEN {}
    ELSE {n} \cup UNION {Reach(h, h[n].children[i]) : i \in 1..Len(h[n].children)}

\* the nodes the statement list owns
Owned == UNION {Reach(heap, statements[i]) : i \in 1..Len(statements)}

\* the subtree under pointer n as a value
RECURSIVE Tree(_, _)
Tree(h, n) ==
    [type |-> h[n].type, value |-> h[n].value, name |-> h[n].name,
     kids |-> [i \in 1..Len(h[n].children) |-> Tree(h, h[n].children[i])]]

\* the node types of the subtree under n, left to right
RECURSIVE InOrder(_, _)
InOrder(h, n) ==
    IF Len(h[n].children) = 0 THEN <<h[n].type>>
    ELSE InOrder(h, h[n].children[1]) \o <<h[n].type>> \o InOrder(h, h[n].children[2])

RECURSIVE InOrderAll(_, _, _)
InOrderAll(h, stmts, i) ==
    IF i > Len(stmts) THEN <<>>
    ELSE InOrder(h, stmts[i]) \o InOrderAll(h, stmts, i + 1)

LeafKinds == {"NUMBER", "IDENTIFIER", "BOOLEAN_TRUE", "BOOLEAN_FALSE"}

OperatorKinds == {o[1] : o \in BinaryOps}

\* the node type the grammar table gives a token kind
NodeTypeOf(kind) ==
    CASE kind = "LESS" -> "LESS_THAN"
      [] kind = "GREATER" -> "GREATER_THAN"
      [] kind \in {"BOOLEAN_TRUE", "BOOLEAN_FALSE"} -> "BOOLEAN_LITERAL"
      [] OTHER -> kind

\* the precedence level of an operator kind, assignment lowest
Level(kind) ==
    CASE kind = "ASSIGN" -> 1
      [] kind = "LOGICAL_OR" -> 2
      [] kind = "LOGICAL_XOR" -> 3
      [] kind = "LOGICAL_AND" -> 4
      [] kind \in {"EQUAL", "NOT_EQUAL"} -> 5
      [] kind \in {"LESS", "LESS_EQUAL", "GREATER", "GREATER_EQUAL"} -> 6
      [] kind \in {"ADD", "SUBTRACT"} -> 7
      [] kind \in {"MULTIPLY", "DIVIDE", "MODULO"} -> 8

Count(P(_), seq) == Cardinality({i \in 1..Len(seq) : P(seq[i])})

IsTorn(n) == ~heap[n].alive /\ heap[n].frees = 1
IsIntact(n) == heap[n].alive /\ heap[n].frees = 0

ErrorNames(tok) ==
    /\ error.thrown
    /\ error.line = tok.line /\ error.column = tok.column /\ error.text = tok.value

(***************************************************************************)
(* C1.  When parse() raises the statement-boundary error, every node       *)
(* allocated during the call has been torn down before the error leaves    *)
(* parse(): the roots already in the statement list and the subtree of the *)
(* statement expression() just returned.                                   *)
(***************************************************************************)
C1_BoundaryErrorTearsDownAll ==
    (pc = "thrown" /\ error.site = "boundary") =>
        \A n \in Nodes : ~heap[n].alive

(***************************************************************************)
(* C2.  When expression() leaves by an error, every node allocated inside  *)
(* that call has been freed exactly once, and nothing else was touched:    *)
(* the nodes of the roots parsed before are alive and never freed.         *)
(***************************************************************************)
C2_ExpressionErrorFreesOnce ==
    (pc = "catch" /\ error.site # "boundary") =>
        /\ stmt = NULL
        /\ \A n \in Nodes : IF n \in Owned THEN IsIntact(n) ELSE IsTorn(n)

\* an error inside a parenthesis after an operator node and its two
\* adopted children were built
C2_Witness ==
    /\ pc = "catch"
    /\ error.site \in {"factor", "paren"}
    /\ unmatchedParentheses > 0
    /\ \E n \in Nodes : heap[n].type = "ADD" /\ IsTorn(n)
    /\ \A n \in Nodes : IsTorn(n)

(***************************************************************************)
(* Numeric literals of a text: the maximal runs of digits and dots.        *)
(***************************************************************************)
Runs(inp) ==
    {r \in (1..Len(inp)) \X (1..Len(inp)) :
        /\ r[1] <= r[2]
        /\ \A k \in r[1]..r[2] : isDigit(inp[k])
        /\ r[1] = 1 \/ ~isDigit(inp[r[1] - 1])
        /\ r[2] = Len(inp) \/ ~isDigit(inp[r[2] + 1])}

\* a second dot, or a leading or trailing dot
Malformed(inp, r) ==
    \/ Cardinality({k \in r[1]..r[2] : inp[k] = "."}) >= 2
    \/ inp[r[1]] = "."
    \/ inp[r[2]] = "."

\* every character is one tokenize() has a branch for
Recognised(inp) ==
    \A k \in 1..Len(inp) :
        isspace(inp[k]) \/ inp[k] \in {"(", ")"} \/ isDigit(inp[k]) \/ isOperator(inp[k])

(***************************************************************************)
(* C3.  tokenize() then parse() on a text that contains a malformed        *)
(* numeric literal raises a SyntaxError: parse() never returns normally.   *)
(***************************************************************************)
C3_MalformedLiteralRaises ==
    (/\ pc \in {"returned", "thrown"}
     /\ Recognised(input)
     /\ \E r \in Runs(input) : Malformed(input, r))
        => pc = "thrown"

(***************************************************************************)
(* C4.  tokenize() emits exactly one token for every numeric literal of    *)
(* the text: a NUMBER for a valid one, a single UNKNOWN for a malformed    *)
(* one, and no NUMBER token from any part of a malformed one.              *)
(***************************************************************************)
IsNumberToken(t) == t.type = "NUMBER"
IsUnknownLiteral(t) == t.type = "UNKNOWN" /\ t.value # EndText

C4_MalformedLiteralIsOneUnknown ==
    (pc # "lex" /\ input # <<>> /\ Recognised(input)) =>
        /\ Count(IsNumberToken, tokens)
              = Cardinality({r \in Runs(input) : ~Malformed(input, r)})
        /\ Count(IsUnknownLiteral, tokens)
              = Cardinality({r \in Runs(input) : Malformed(input, r)})

ValidStream ==
    /\ tokens[Len(tokens)].type = "UNKNOWN"
    /\ \A i \in 1..(Len(tokens) - 1) : tokens[i].type # "UNKNOWN"

NotParen(t) == t.type \notin {"LEFT_PAREN", "RIGHT_PAREN"}
IsLeafToken(t) == t.type \in LeafKinds
IsOperatorToken(t) == t.type \in OperatorKinds

\* the node types the tokens before position p stand for, parentheses aside
TokenTypes(p) ==
    LET body == SelectSeq(SubSeq(tokens, 1, p - 1), NotParen)
    IN  [i \in 1..Len(body) |-> NodeTypeOf(body[i].type)]

C6_ConsumesEveryTokenOnce ==
    (pc = "returned" /\ ValidStream) =>
        /\ currentTokenIndex = Len(tokens)
        /\ unmatchedParentheses = 0
        /\ InOrderAll(heap, statements, 1) = TokenTypes(Len(tokens))
        /\ Len(statements) = Count(IsLeafToken, tokens) - Count(IsOperatorToken, tokens)
        /\ Owned = Nodes
        /\ \A n \in Nodes : IsIntact(n)

\* two statements on two lines, one of them parenthesised
C6_Witness ==
    /\ pc = "returned"
    /\ ValidStream
    /\ Len(statements) = 2
    /\ \E i \in 1..Len(tokens) : tokens[i].type = "LEFT_PAREN"

(***************************************************************************)
(* The token vector read as  x op1 y op2 z  with operands that are a leaf  *)
(* token or a leaf token in parentheses.                                   *)
(***************************************************************************)
OperandLen(p) ==
    IF p > Len(tokens) THEN 0
    ELSE IF tokens[p].type \in LeafKinds THEN 1
    ELSE IF /\ tokens[p].type = "LEFT_PAREN"
            /\ p + 2 <= Len(tokens)
            /\ tokens[p + 1].type \in LeafKinds
            /\ tokens[p + 2].type = "RIGHT_PAREN" THEN 3
    ELSE 0

OperandToken(p) == IF tokens[p].type \in LeafKinds THEN tokens[p] ELSE tokens[p + 1]

ExpectedLeaf(t) ==
    [type  |-> NodeTypeOf(t.type),
     value |-> IF t.type = "NUMBER" THEN stod(t.value)
               ELSE IF t.type = "BOOLEAN_TRUE" THEN One ELSE Zero,
     name  |-> IF t.type = "IDENTIFIER" THEN t.value ELSE <<>>,
     kids  |-> <<>>]

ExpectedBin(kind, l, r) ==
    [type |-> NodeTypeOf(kind), value |-> Zero, name |-> <<>>, kids |-> <<l, r>>]

Op1Pos == 1 + OperandLen(1)
YPos == Op1Pos + 1
Op2Pos == YPos + OperandLen(YPos)
ZPos == Op2Pos + 1

IsOperatorAt(p) == p <= Len(tokens) /\ tokens[p].type \in OperatorKinds

Shape3 ==
    /\ OperandLen(1) > 0
    /\ IsOperatorAt(Op1Pos)
    /\ OperandLen(YPos) > 0
    /\ IsOperatorAt(Op2Pos)
    /\ OperandLen(ZPos) > 0
    /\ ZPos + OperandLen(ZPos) = Len(tokens)
    /\ tokens[Len(tokens)].type = "UNKNOWN"

Op1 == tokens[Op1Pos].type
Op2 == tokens[Op2Pos].type
X == ExpectedLeaf(OperandToken(1))
Y == ExpectedLeaf(OperandToken(YPos))
Z == ExpectedLeaf(OperandToken(ZPos))

Parsed == pc \in {"returned", "thrown"}

\* parse() returned the single root t
Yields(t) ==
    /\ pc = "returned"
    /\ Len(statements) = 1
    /\ Tree(heap, statements[1]) = t

\* parse() raised the assignment error at token p
RejectedAt(p) ==
    /\ pc \in {"catch", "thrown"}
    /\ error.site = "assign"
    /\ currentTokenIndex = p
    /\ ErrorNames(tokens[p])

(***************************************************************************)
(* C7.  Two operators of the same level other than assignment:             *)
(* x op1 y op2 z yields op2(op1(x, y), z), left operand first.             *)
(***************************************************************************)
C7_LeftAssociative ==
    (Parsed /\ Shape3 /\ Level(Op1) = Level(Op2) /\ Op1 # "ASSIGN") =>
        Yields(ExpectedBin(Op2, ExpectedBin(Op1, X, Y), Z))

\* 8 - 3 - 2
C7_Witness ==
    /\ pc = "returned"
    /\ Shape3
    /\ Op1 = "SUBTRACT" /\ Op2 = "SUBTRACT"
    /\ tokens[1].value = <<"8">> /\ tokens[3].value = <<"3">> /\ tokens[5].value = <<"2">>
    /\ heap[statements[1]].type = "SUBTRACT"
    /\ heap[heap[statements[1]].children[1]].type = "SUBTRACT"

(***************************************************************************)
(* C8.  Assignment chains nest to the right: a = b = e yields              *)
(* ASSIGN(a, ASSIGN(b, e)) and a = b = c = e yields                        *)
(* ASSIGN(a, ASSIGN(b, ASSIGN(c, e))), the identifier as children[0].      *)
(***************************************************************************)
\* the value e of a chain from position p to the sentinel: an operand, or
\* two operands around an operator other than '='
TailIsOperand(p) == OperandLen(p) > 0 /\ p + OperandLen(p) = Len(tokens)

TailOpPos(p) == p + OperandLen(p)

TailIsBinary(p) ==
    /\ OperandLen(p) > 0
    /\ IsOperatorAt(TailOpPos(p))
    /\ tokens[TailOpPos(p)].type # "ASSIGN"
    /\ OperandLen(TailOpPos(p) + 1) > 0
    /\ TailOpPos(p) + 1 + OperandLen(TailOpPos(p) + 1) = Len(tokens)

ExpectedTail(p) ==
    IF TailIsOperand(p) THEN ExpectedLeaf(OperandToken(p))
    ELSE ExpectedBin(tokens[TailOpPos(p)].type,
                     ExpectedLeaf(OperandToken(p)),
                     ExpectedLeaf(OperandToken(TailOpPos(p) + 1)))

\* tokens 1 .. 2k are  id = id = ... id =
RECURSIVE ChainPrefix(_)
ChainPrefix(k) ==
    k = 0 \/ /\ 2 * k < Len(tokens)
             /\ tokens[2 * k - 1].type = "IDENTIFIER"
             /\ tokens[2 * k].type = "ASSIGN"
             /\ ChainPrefix(k - 1)

\* ASSIGN(id_i, ASSIGN(id_i+1, ... ASSIGN(id_k, e)))
RECURSIVE ExpectedChain(_, _)
ExpectedChain(i, k) ==
    IF i > k THEN ExpectedTail(2 * k + 1)
    ELSE ExpectedBin("ASSIGN", ExpectedLeaf(tokens[2 * i - 1]), ExpectedChain(i + 1, k))

ChainLengths == {2, 3}

IsChain(k) ==
    /\ ChainPrefix(k)
    /\ TailIsOperand(2 * k + 1) \/ TailIsBinary(2 * k + 1)
    /\ tokens[Len(tokens)].type = "UNKNOWN"

C8_AssignmentRightAssociative ==
    \A k \in ChainLengths :
        (Parsed /\ IsChain(k)) => Yields(ExpectedChain(1, k))

\* a = b = c = 8 + 1.5
C8_Witness ==
    /\ pc = "returned"
    /\ IsChain(3)
    /\ TailIsBinary(7)
    /\ heap[statements[1]].type = "ASSIGN"
    /\ heap[heap[statements[1]].children[1]].type = "IDENTIFIER"
    /\ heap[heap[statements[1]].children[2]].type = "ASSIGN"

(***************************************************************************)
(* C9.  Precedence follows the level order.  For operators of different    *)
(* levels, lo the lower and hi the higher one:                             *)
(*   lo other than '=':  x lo y hi z yields lo(x, hi(y, z)) and            *)
(*                       x hi y lo z yields lo(hi(x, y), z);               *)
(*   lo is '=':  x = y hi z yields ASSIGN(x, hi(y, z)) when x is an        *)
(*               identifier and raises the assignment error at '='         *)
(*               otherwise; x hi y = z raises the assignment error at      *)
(*               '=', its left operand being an operator node.             *)
(***************************************************************************)
C9_PrecedenceByLevel ==
    (Parsed /\ Shape3 /\ Level(Op1) # Level(Op2)) =>
        IF Level(Op1) < Level(Op2)
        THEN IF Op1 = "ASSIGN" /\ X.type # "IDENTIFIER"
             THEN RejectedAt(Op1Pos)
             ELSE Yields(ExpectedBin(Op1, X, ExpectedBin(Op2, Y, Z)))
        ELSE IF Op2 = "ASSIGN"
             THEN RejectedAt(Op2Pos)
             ELSE Yields(ExpectedBin(Op2, ExpectedBin(Op1, X, Y), Z))

\* 8 + 3 * 2
C9_Witness ==
    /\ pc = "returned"
    /\ Shape3
    /\ Op1 = "ADD" /\ Op2 = "MULTIPLY"
    /\ tokens[1].value = <<"8">>
    /\ heap[statements[1]].type = "ADD"
    /\ heap[heap[statements[1]].children[2]].type = "MULTIPLY"

\* C9 as stated: for every lower lo, assignment included
C9_PrecedenceEveryLevel ==
    (Parsed /\ Shape3 /\ Level(Op1) # Level(Op2)) =>
        IF Level(Op1) < Level(Op2)
        THEN Yields(ExpectedBin(Op1, X, ExpectedBin(Op2, Y, Z)))
        ELSE Yields(ExpectedBin(Op2, ExpectedBin(Op1, X, Y), Z))

(***************************************************************************)
(* C10.  An '=' after a left operand whose root is not an IDENTIFIER node  *)
(* raises the SyntaxError naming the '=' token; the cursor stays on '=',   *)
(* no node is allocated for the '=' or for anything after it, and the      *)
(* left subtree is torn down exactly once before the error propagates.     *)
(***************************************************************************)
IsLeafNode(n) == n.type \in {"NUMBER", "IDENTIFIER", "BOOLEAN_LITERAL"}
IsAssignNode(n) == n.type = "ASSIGN"
IsAssignToken(t) == t.type = "ASSIGN"

\* the first statement has been through expression()
FirstParsed ==
    \/ pc \in {"check", "catch", "thrown", "returned"}
    \/ pc = "loop" /\ Len(statements) > 0

\* a literal, bare or in parentheses, followed by '='
LiteralAssigned ==
    /\ OperandLen(1) > 0
    /\ OperandToken(1).type # "IDENTIFIER"
    /\ Op1Pos <= Len(tokens)
    /\ tokens[Op1Pos].type = "ASSIGN"

\* x op y followed by '=', op not '='
OperationAssigned ==
    /\ OperandLen(1) > 0
    /\ IsOperatorAt(Op1Pos)
    /\ Op1 # "ASSIGN"
    /\ OperandLen(YPos) > 0
    /\ Op2Pos <= Len(tokens)
    /\ tokens[Op2Pos].type = "ASSIGN"

C10_AssignToNonIdentifierRejected ==
    /\ (FirstParsed /\ LiteralAssigned) => RejectedAt(Op1Pos)
    /\ (FirstParsed /\ OperationAssigned) => RejectedAt(Op2Pos)
    /\ error.site = "assign" =>
          /\ currentToken.type = "ASSIGN"
          /\ ErrorNames(currentToken)
          /\ Count(IsLeafNode, heap)
                = Count(IsLeafToken, SubSeq(tokens, 1, currentTokenIndex - 1))
          /\ Count(IsAssignNode, heap)
                < Count(IsAssignToken, SubSeq(tokens, 1, currentTokenIndex))
          /\ pc = "catch" =>
                \A n \in Nodes : IF n \in Owned THEN IsIntact(n) ELSE IsTorn(n)
          /\ pc = "thrown" => \A n \in Nodes : IsTorn(n)

\* a + b = ... : the operator node and both operands torn down
C10_Witness ==
    /\ pc = "catch"
    /\ error.site = "assign"
    /\ OperationAssigned
    /\ \E n \in Nodes : heap[n].type = "ADD" /\ IsTorn(n)

(***************************************************************************)
(* C11.  A '(' whose enclosed expression is not followed by ')' raises the *)
(* SyntaxError whose line, column and text are those of the token found    *)
(* where ')' was required (the end-of-input sentinel for ( 1 + 2), never   *)
(* those of an opening parenthesis, and every node of the subexpression    *)
(* built so far is torn down exactly once before the error propagates.     *)
(***************************************************************************)
IsLeftParen(t) == t.type = "LEFT_PAREN"

\* ( x  or  ( x op y  followed at position p by a token that neither
\* continues the expression nor closes the parenthesis
UnclosedAt(p) ==
    /\ Len(tokens) >= p
    /\ tokens[1].type = "LEFT_PAREN"
    /\ tokens[2].type \in LeafKinds
    /\ \/ p = 3
       \/ /\ p = 5
          /\ tokens[3].type \in OperatorKinds \ {"ASSIGN"}
          /\ tokens[4].type \in LeafKinds
    /\ tokens[p].type \notin OperatorKinds \cup {"RIGHT_PAREN"}

\* parse() raised the parenthesis error at token p
UnclosedRaisedAt(p) ==
    /\ pc \in {"catch", "thrown"}
    /\ error.site = "paren"
    /\ currentTokenIndex = p
    /\ ErrorNames(tokens[p])

C11_UnclosedParenNamesOffendingToken ==
    /\ \A p \in {3, 5} : (FirstParsed /\ UnclosedAt(p)) => UnclosedRaisedAt(p)
    /\ error.site = "paren" =>
          /\ currentToken.type # "RIGHT_PAREN"
          /\ ErrorNames(currentToken)
          /\ unmatchedParentheses > 0
          /\ Count(IsLeftParen, SubSeq(tokens, stmtStart, currentTokenIndex - 1)) > 0
          /\ \A i \in 1..(currentTokenIndex - 1) :
                tokens[i].type = "LEFT_PAREN" =>
                    <<error.line, error.column>> # <<tokens[i].line, tokens[i].column>>
          /\ pc = "catch" =>
                \A n \in Nodes : IF n \in Owned THEN IsIntact(n) ELSE IsTorn(n)
          /\ pc = "thrown" => \A n \in Nodes : IsTorn(n)

\* ( 1 + 2 and the end of input: the error names the sentinel, and the ADD
\* node and its operands are torn down
C11_Witness ==
    /\ pc = "catch"
    /\ UnclosedRaisedAt(5)
    /\ UnclosedAt(5)
    /\ currentToken.type = "UNKNOWN"
    /\ currentToken.value = EndText
    /\ \E n \in Nodes : heap[n].type = "ADD" /\ IsTorn(n)
    /\ \A n \in Nodes : IsTorn(n)

(***************************************************************************)
(* Positions in the text: the 1-based line and column of character k, the  *)
(* column restarting at 1 after each newline, and the first character of   *)
(* the i-th token, the tokens lying in the text in order with white space  *)
(* between them.                                                           *)
(***************************************************************************)
LineAt(inp, k) == 1 + Cardinality({j \in 1..(k - 1) : inp[j] = NL})

LastNewline(inp, k) ==
    LET nls == {j \in 1..(k - 1) : inp[j] = NL}
    IN  IF nls = {} THEN 0 ELSE CHOOSE j \in nls : \A m \in nls : m <= j

ColumnAt(inp, k) == k - LastNewline(inp, k)

RECURSIVE SkipSpace(_, _)
SkipSpace(inp, p) ==
    IF p <= Len(inp) /\ isspace(inp[p]) THEN SkipSpace(inp, p + 1) ELSE p

RECURSIVE FirstCharOf(_, _, _)
FirstCharOf(inp, toks, i) ==
    SkipSpace(inp, IF i = 1 THEN 1
                   ELSE FirstCharOf(inp, toks, i - 1) + Len(toks[i - 1].value))

CarriesPosition(tok, inp, k) ==
    tok.line = LineAt(inp, k) /\ tok.column = ColumnAt(inp, k)

(***************************************************************************)
(* C12.  Every token tokenize() emits for characters of the text carries   *)
(* the 1-based line and column of its first character: parenthesis,        *)
(* number and operator tokens and the UNKNOWN token of an unrecognised     *)
(* character alike.                                                        *)
(***************************************************************************)
C12_TokensCarryFirstCharPosition ==
    Len(input) > 0 =>
        \A i \in 1..Len(tokens) :
            tokens[i].value # EndText =>
                CarriesPosition(tokens[i], input, FirstCharOf(input, tokens, i))

====
